---- MODULE Spec2Model ----
(***************************************************************************)
(* Model of the per-channel announcement scheduler of src/main.py:         *)
(* the BotState registry CHANNEL_STATES, the slash commands that create,   *)
(* stop and test a schedule, the on_message activity hook and the          *)
(* send_scheduled_message tick loop with its two suspension points         *)
(* (content generation and channel.send).                                  *)
(*                                                                         *)
(* Python objects are held by reference.  The tick loop iterates over a    *)
(* snapshot list(CHANNEL_STATES.items()) and keeps using the BotState      *)
(* objects of that snapshot across its awaits, so a schedule that is       *)
(* removed while the tick is suspended lives on as an object only the tick *)
(* can reach.  `detached` holds those objects; a snapshot entry that is    *)
(* not detached aliases the registry entry of its channel.                 *)
(***************************************************************************)
EXTENDS Integers, Sequences, FiniteSets, TLC

\* ---------------------------------------------------------------- bounds
Channels == {1, 2}
MaxTime == 20
TimeStep == 10
MaxCreates == 2
ClockSkew == 1

\* user inputs of /manual: interval_hours, written in half seconds
\* (interval_hours * 3600 = x / 2); the first channel is given every kind of
\* request, the second one only one manual schedule, as the second schedule
\* of the run
ManualInputs(c) == IF c = 1 THEN {0, 19, 20, 41} ELSE {20}
ManualChannels(n) == IF n = 1 THEN {1, 2} ELSE {1}
AutomaticChannels == {1}
Messages == {"m1"}
Prompts == {"p1"}

\* A handler that sets both timestamps reads time.time() twice; the second
\* reading is the first one, or later by ClockSkew (once between two steps of
\* the clock)
ClockReads(t) == IF t % TimeStep = 0 THEN {0, ClockSkew} ELSE {0}

\* /test is given in the first channel, bot messages are seen there
TestChannels == {1}
Authors(c) == IF c = 1 THEN {"bot", "user"} ELSE {"user"}

\* ------------------------------------------------------- program constants
MIN_INTERVAL == 10

NoState == [none |-> TRUE]

\* BotState.__init__
BotState(channel_id, t) ==
  [ scheduled_channel_id       |-> channel_id,
    last_channel_activity_time |-> t,
    last_bot_send_time         |-> t,
    scheduled_message_content  |-> "",
    is_automatic               |-> FALSE,
    ai_prompt                  |-> "",
    interval_seconds           |-> 0 ]

VARIABLES
  now,              \* time.time()
  GEMINI_API_KEY,   \* TRUE iff the credential is configured
  CHANNEL_STATES,   \* channel -> BotState or NoState
  keyOrder,         \* insertion order of the keys of CHANNEL_STATES
  pc,               \* position of the tick loop
  loops,            \* number of running tasks of send_scheduled_message
  snapshot,         \* list(CHANNEL_STATES.items()) of the running tick (its keys)
  idx,              \* index in snapshot of the entry being processed
  detached,         \* channel -> snapshot object no longer in the registry
  message_to_send,  \* local of the running tick
  nCreate,          \* number of schedules created so far (bounds the run)
  lastEvent,        \* observation: the handler step that was last taken
  actSince,         \* observation: a non-bot message was seen in the channel
                    \*   since its last scheduled delivery and its last create
  lastDeliv,        \* observation: time the last delivered scheduled send of
                    \*   the channel was issued, or -1
  basis,            \* observation: what held when the send in flight was issued
  owed,             \* observation: channels found due, active and resolved by the
                    \*   running or last tick, with no channel.send issued yet
  attempted,        \* observation: channel.send calls issued per channel by the
                    \*   running tick
  call,             \* the call of a generator of the AI service under study:
                    \*   its locals and the locals of its fetch_with_backoff
  HANGMAN_GAMES,    \* channel -> the HangmanGame object of the channel, or 0
  games,            \* the HangmanGame objects made so far
  tasks             \* the /hangman commands suspended in an await

vars == << now, GEMINI_API_KEY, CHANNEL_STATES, keyOrder, pc, loops, snapshot, idx,
           detached, message_to_send, nCreate, lastEvent, actSince, lastDeliv,
           basis, owed, attempted, call, HANGMAN_GAMES, games, tasks >>

\* the state of the hangman games
gameVars == << HANGMAN_GAMES, games, tasks >>

\* what the commands leave alone: the tick loop and the generator call
tickVars == << pc, loops, snapshot, idx, detached, message_to_send, owed,
              attempted, call, gameVars >>

\* the state of the scheduler
botVars == << now, GEMINI_API_KEY, CHANNEL_STATES, keyOrder, pc, loops, snapshot,
              idx, detached, message_to_send, nCreate, lastEvent, actSince,
              lastDeliv, basis, owed, attempted >>

\* a create for channel c starts the channel's history anew
ResetHistory(c) ==
  /\ actSince' = [actSince EXCEPT ![c] = FALSE]
  /\ basis' = IF pc = "send" /\ snapshot[idx] = c
                THEN [basis EXCEPT !.keep = FALSE] ELSE basis

\* ------------------------------------------------------------ observations
NoBranch == [c \in Channels |-> "none"]

Event(op, ch) == [ op |-> op, ch |-> ch, res |-> "", br |-> NoBranch ]

\* A scheduled delivery is judged at the moment its channel.send is issued:
\* act  - actSince of the channel at that moment
\* keep - act, until a create for the channel resets the history
\* at   - the time of the issue
\* iv   - the interval then in force for the channel
NoBasis == [act |-> FALSE, keep |-> FALSE, at |-> 0, iv |-> 0]

\* ------------------------------------------------------------------ helpers
Has(reg, c) == reg[c] # NoState

RemoveKey(order, c) == SelectSeq(order, LAMBDA k : k # c)

\* int(interval_hours * 3600), the input written in half seconds
IntervalSecondsOf(x) == x \div 2

\* time.time() - state.last_bot_send_time >= state.interval_seconds
Due(st, t) == t - st.last_bot_send_time >= st.interval_seconds

\* state.last_channel_activity_time <= state.last_bot_send_time
IsIdle(st) == st.last_channel_activity_time <= st.last_bot_send_time

\* the BotState object the running tick holds for channel c
TickObj(reg, det, c) == IF det[c] # NoState THEN det[c] ELSE reg[c]

\* snapshot entries the running tick still holds a reference to
Held == IF pc \in {"gen", "send"}
          THEN { snapshot[i] : i \in idx..Len(snapshot) }
          ELSE {}

\* removing the channels cs from the registry leaves their objects with the tick
Detach(det, reg, cs) ==
  [ c \in Channels |->
      IF c \in cs /\ c \in Held /\ det[c] = NoState /\ Has(reg, c)
        THEN reg[c] ELSE det[c] ]

\* ---------------------------------------------------------------- tick loop
\* The state a tick step works on: the registry, its key order, the tick's
\* detached objects and locals, and the observations of this tick.
TickState ==
  [ reg |-> CHANNEL_STATES, order |-> keyOrder, det |-> detached,
    owed |-> owed, att |-> attempted, br |-> NoBranch,
    pc |-> pc, idx |-> idx, msg |-> message_to_send,
    act |-> actSince, deliv |-> lastDeliv, basis |-> basis ]

\* an exception leaves the loop body: the task ends (discord.ext.tasks)
Crash(S) == [S EXCEPT !.pc = "crashed", !.idx = 0, !.msg = ""]

\* state.last_bot_send_time = time.time()  (lines 424 and 442)
SetSendTime(st, t) == [st EXCEPT !.last_bot_send_time = t]

\* write through the tick's reference to the object of channel c
WriteObj(S, c, st) ==
  IF S.det[c] # NoState
    THEN [S EXCEPT !.det[c] = st]
    ELSE [S EXCEPT !.reg[c] = st]

\* del CHANNEL_STATES[channel_id]; KeyError when the key is gone
DelKey(S, c) ==
  IF Has(S.reg, c)
    THEN [S EXCEPT !.reg[c] = NoState, !.order = RemoveKey(S.order, c)]
    ELSE Crash(S)

\* IdleSkip that forgets to restart the timer
IdleSkip_NoReset(S, c, st, t) == [S EXCEPT !.br[c] = "idle"]

\* lines 422-425, the anti-stacking branch
IdleSkip(S, c, st, t) ==
  [WriteObj(S, c, SetSendTime(st, t)) EXCEPT !.br[c] = "idle"]

\* lines 427-431, channel not found
ChannelGone(S, c) == [DelKey(S, c) EXCEPT !.br[c] = "gone"]

\* the interval in force for channel c: that of its registered schedule, or
\* of the schedule the tick still holds when none is registered
CurrentInterval(reg, det, c) ==
  IF Has(reg, c) THEN reg[c].interval_seconds
  ELSE TickObj(reg, det, c).interval_seconds

\* await channel.send(...): the call is issued and the tick suspends
IssueSend(S, c, i, text, t) ==
  [S EXCEPT !.pc = "send", !.idx = i, !.msg = text, !.owed = S.owed \ {c},
            !.att[c] = S.att[c] + 1, !.br[c] = "send",
            !.basis = [act |-> S.act[c], keep |-> S.act[c], at |-> t,
                       iv |-> CurrentInterval(S.reg, S.det, c)],
            !.act[c] = FALSE]

\* lines 414-441 for the snapshot entries from index i on, up to the first
\* await that suspends the tick or to the end of the snapshot; live is the
\* set of channels client.get_channel resolves at this moment
RECURSIVE Scan(_, _, _, _, _)
Scan(S, snap, i, t, live) ==
  IF S.pc = "crashed" THEN S
  ELSE IF i > Len(snap) THEN [S EXCEPT !.pc = "idle", !.idx = 0, !.msg = ""]
  ELSE
    LET c  == snap[i]
        st == TickObj(S.reg, S.det, c)
    IN
      IF st.interval_seconds = 0
        THEN Scan([S EXCEPT !.br[c] = "off"], snap, i + 1, t, live)
      ELSE IF ~Due(st, t)
        THEN Scan([S EXCEPT !.br[c] = "notdue"], snap, i + 1, t, live)
      ELSE IF IsIdle(st)
        THEN Scan(IdleSkip(S, c, st, t), snap, i + 1, t, live)
      ELSE IF st.scheduled_channel_id \notin live
        THEN Scan(ChannelGone(S, c), snap, i + 1, t, live)
      ELSE
        LET E == [S EXCEPT !.owed = S.owed \cup {c}]
        IN IF st.is_automatic
             THEN IF GEMINI_API_KEY
                    THEN [E EXCEPT !.pc = "gen", !.idx = i, !.br[c] = "gen"]
                    ELSE IssueSend(E, c, i, "Error: Gemini API Key not configured.", t)
             ELSE IssueSend(E, c, i, st.scheduled_message_content, t)

\* the tick's references are dropped when the loop body ends
Release(S) ==
  IF S.pc \in {"idle", "crashed"}
    THEN [S EXCEPT !.det = [c \in Channels |-> NoState],
                   !.att = [c \in Channels |-> 0]]
    ELSE S

\* commit a tick step
Commit(S, snap) ==
  LET R == Release(S) IN
  /\ CHANNEL_STATES' = R.reg
  /\ keyOrder' = R.order
  /\ detached' = R.det
  /\ owed' = R.owed
  /\ attempted' = R.att
  /\ pc' = R.pc
  /\ loops' = IF R.pc = "crashed" THEN loops - 1 ELSE loops
  /\ idx' = R.idx
  /\ message_to_send' = R.msg
  /\ snapshot' = IF R.pc \in {"idle", "crashed"} THEN << >> ELSE snap
  /\ actSince' = R.act
  /\ lastDeliv' = R.deliv
  /\ basis' = R.basis
  /\ UNCHANGED << call, gameVars >>

\* a loop iteration begins: for channel_id, state in list(CHANNEL_STATES.items())
TickStart(live) ==
  /\ pc = "idle"
  /\ LET S == Scan([TickState EXCEPT !.owed = {}], keyOrder, 1, now, live)
     IN /\ Commit(S, keyOrder)
        /\ lastEvent' = [Event("tick", 0) EXCEPT !.br = S.br]
  /\ UNCHANGED << now, GEMINI_API_KEY, nCreate >>

\* what generate_announcement_content can do (lines 209-234): return text,
\* return an error string, or let an exception of line 231 escape
GenOutcomes == {"content", "error_string", "raise"}

GenText(outcome) ==
  IF outcome = "content" THEN "generated" ELSE "Error: AI service failure"

\* line 436 resumes: message_to_send = await generate_announcement_content(...)
AfterGen(S, c, i, outcome, t) ==
  IF outcome = "raise"
    THEN [Crash(S) EXCEPT !.br[c] = "gen_raised"]
    ELSE [IssueSend(S, c, i, GenText(outcome), t) EXCEPT !.br[c] = "generated"]

GenDone(outcome) ==
  /\ pc = "gen"
  /\ LET c == snapshot[idx]
         S == AfterGen(TickState, c, idx, outcome, now)
     IN /\ Commit(S, snapshot)
        /\ lastEvent' = [Event("gen_done", c) EXCEPT !.res = outcome, !.br = S.br]
  /\ UNCHANGED << now, GEMINI_API_KEY, nCreate >>

\* what channel.send can do: succeed, raise discord.Forbidden, raise another error
SendOutcomes == {"ok", "forbidden", "other"}

\* AfterSend that treats discord.Forbidden like any other error
AfterSend_KeepOnForbidden(S, c, st, outcome, t) ==
  IF outcome = "ok"
    THEN [WriteObj(S, c, SetSendTime(st, t)) EXCEPT !.br[c] = "sent"]
  ELSE [S EXCEPT !.br[c] = IF outcome = "forbidden" THEN "forbidden" ELSE "failed"]

\* AfterSend that restarts the timer of the schedule on any failure
AfterSend_TouchOnFailure(S, c, st, outcome, t) ==
  IF outcome = "forbidden"
    THEN [DelKey(S, c) EXCEPT !.br[c] = "forbidden"]
  ELSE [WriteObj(S, c, SetSendTime(st, t)) EXCEPT
          !.br[c] = IF outcome = "ok" THEN "sent" ELSE "failed"]

\* the send in flight for channel c ends: delivered, or not
Settle(S, c, outcome) ==
  IF outcome = "ok"
    THEN [S EXCEPT !.deliv[c] = S.basis.at, !.basis = NoBasis]
    ELSE [S EXCEPT !.act[c] = S.act[c] \/ S.basis.keep, !.basis = NoBasis]

\* lines 442-448, the code after the await of line 441
AfterSend(S, c, st, outcome, t) ==
  IF outcome = "ok"
    THEN [WriteObj(S, c, SetSendTime(st, t)) EXCEPT !.br[c] = "sent"]
  ELSE IF outcome = "forbidden"
    THEN [DelKey(S, c) EXCEPT !.br[c] = "forbidden"]
  ELSE [S EXCEPT !.br[c] = "failed"]

\* line 441 resumes, then the loop goes on with the next snapshot entries
SendDone(outcome, live) ==
  /\ pc = "send"
  /\ LET c  == snapshot[idx]
         st == TickObj(CHANNEL_STATES, detached, c)
         S  == Scan(AfterSend(Settle(TickState, c, outcome), c, st, outcome, now),
                    snapshot, idx + 1, now, live)
     IN /\ Commit(S, snapshot)
        /\ lastEvent' = [Event("send_done", c) EXCEPT !.res = outcome, !.br = S.br]
  /\ UNCHANGED << now, GEMINI_API_KEY, nCreate >>

\* an is_running that never sees the running task
is_running_Never(n) == FALSE

\* send_scheduled_message.is_running() (line 461)
is_running(n) == n > 0

\* on_ready (lines 461-463): start the loop unless it is running
on_ready ==
  /\ pc' = IF ~is_running(loops) THEN "idle" ELSE pc
  /\ loops' = IF ~is_running(loops) THEN loops + 1 ELSE loops
  /\ lastEvent' = Event("ready", 0)
  /\ UNCHANGED << now, GEMINI_API_KEY, CHANNEL_STATES, keyOrder, snapshot, idx,
                  detached, message_to_send, owed, attempted, actSince, lastDeliv,
                  basis, nCreate, call, gameVars >>

\* ----------------------------------------------------------------- commands
\* The slash commands are registered by on_ready (lines 456-457), so no
\* command runs before the first on_ready.

\* ManualAccepts without the minimum of line 504
ManualAccepts_NoMinimum(x) == x > 0

\* lines 499-506: the two rejections of /manual
ManualAccepts(x) == x > 0 /\ IntervalSecondsOf(x) >= MIN_INTERVAL

\* ManualUpsert that leaves the activity time of the prior schedule
ManualUpsert_KeepActivity(state, message, interval, t1, t2) ==
  [state EXCEPT !.interval_seconds = interval,
                !.scheduled_message_content = message,
                !.is_automatic = FALSE,
                !.last_bot_send_time = t1]

\* lines 511-515; t1 and t2 are the two readings of time.time()
ManualUpsert(state, message, interval, t1, t2) ==
  [state EXCEPT !.interval_seconds = interval,
                !.scheduled_message_content = message,
                !.is_automatic = FALSE,
                !.last_bot_send_time = t1,
                !.last_channel_activity_time = t2]

\* CHANNEL_STATES.get(interaction.channel_id, BotState(interaction.channel_id))
GetOrNew(c, t) == IF Has(CHANNEL_STATES, c) THEN CHANNEL_STATES[c] ELSE BotState(c, t)

\* CHANNEL_STATES[interaction.channel_id] = state
Store(c, st) ==
  /\ CHANNEL_STATES' = [CHANNEL_STATES EXCEPT ![c] = st]
  /\ keyOrder' = IF Has(CHANNEL_STATES, c) THEN keyOrder ELSE Append(keyOrder, c)
  /\ ResetHistory(c)
  /\ nCreate' = nCreate + 1

\* /manual (lines 496-519); skew is what the clock gains between the two
\* readings of lines 514 and 515
manual_schedule(c, message, x, skew) ==
  /\ pc # "notstarted"
  /\ nCreate < MaxCreates
  /\ IF ManualAccepts(x)
       THEN /\ now + skew <= MaxTime
            /\ Store(c, ManualUpsert(GetOrNew(c, now), message, IntervalSecondsOf(x),
                                     now, now + skew))
            /\ now' = now + skew
            /\ lastEvent' = [Event("manual", c) EXCEPT !.res = "scheduled"]
       ELSE /\ skew = 0
            /\ lastEvent' = [Event("manual", c) EXCEPT !.res = "rejected"]
            /\ UNCHANGED << now, CHANNEL_STATES, keyOrder, actSince, basis, nCreate >>
  /\ UNCHANGED << GEMINI_API_KEY, tickVars, lastDeliv >>

\* the structured replies the generation service may give to /automatic
NoField == [has |-> FALSE, val |-> 0]

Replies ==
  { [kind |-> "fetch_error", prompt |-> "", interval |-> NoField],
    [kind |-> "bad_json", prompt |-> "", interval |-> NoField] }
  \cup
  { [kind |-> "ok", prompt |-> p, interval |-> i] :
      p \in {""} \cup Prompts,
      i \in {NoField, [has |-> TRUE, val |-> 5], [has |-> TRUE, val |-> 20]} }

NoData == [ announcement_prompt |-> "", interval_seconds |-> 0 ]

\* a parse that returns the interval of the reply as it came
parse_automatic_prompt_NoClamp(key, reply) ==
  IF ~key
    THEN [data |-> NoData, error |-> "Error: Gemini API Key not configured."]
  ELSE IF reply.kind = "fetch_error"
    THEN [data |-> NoData, error |-> "Error: AI service failure"]
  ELSE IF reply.kind = "bad_json"
    THEN [data |-> NoData,
          error |-> "Error: AI parser response was not in the expected format."]
  ELSE
    [data |-> [ announcement_prompt |-> reply.prompt,
                interval_seconds |-> IF reply.interval.has THEN reply.interval.val
                                     ELSE 0 ],
     error |-> ""]

\* parse_automatic_prompt (lines 237-290) on the reply of the service; a
\* prompt the reply leaves out reads as None, written ""
parse_automatic_prompt(key, reply) ==
  IF ~key
    THEN [data |-> NoData, error |-> "Error: Gemini API Key not configured."]
  ELSE IF reply.kind = "fetch_error"
    THEN [data |-> NoData, error |-> "Error: AI service failure"]
  ELSE IF reply.kind = "bad_json"
    THEN [data |-> NoData,
          error |-> "Error: AI parser response was not in the expected format."]
  ELSE
    LET got == IF reply.interval.has THEN reply.interval.val ELSE 0
    IN [data |-> [ announcement_prompt |-> reply.prompt,
                   interval_seconds |-> IF got < MIN_INTERVAL THEN MIN_INTERVAL ELSE got ],
        error |-> ""]

\* AutomaticAccepts without the prompt test of line 540
AutomaticAccepts_NoPromptCheck(data) == data.interval_seconds >= MIN_INTERVAL

\* line 540: if not ai_prompt or interval_seconds < 10 (negated)
AutomaticAccepts(data) ==
  data.announcement_prompt # "" /\ data.interval_seconds >= MIN_INTERVAL

\* lines 547-551; t1 and t2 are the two readings of time.time()
AutomaticUpsert(state, ai_prompt, interval, t1, t2) ==
  [state EXCEPT !.interval_seconds = interval,
                !.ai_prompt = ai_prompt,
                !.is_automatic = TRUE,
                !.last_bot_send_time = t1,
                !.last_channel_activity_time = t2]

\* /automatic; the registry is first read after the await of line 531, so the
\* handler acts on the registry at the moment the parse result arrives
automatic_schedule(c, reply, skew) ==
  /\ pc # "notstarted"
  /\ nCreate < MaxCreates
  /\ LET parsed == parse_automatic_prompt(GEMINI_API_KEY, reply)
     IN IF ~GEMINI_API_KEY
          THEN /\ skew = 0
               /\ lastEvent' = [Event("automatic", c) EXCEPT !.res = "no_key"]
               /\ UNCHANGED << now, CHANNEL_STATES, keyOrder, actSince, basis, nCreate >>
        ELSE IF parsed.error # ""
          THEN /\ skew = 0
               /\ lastEvent' = [Event("automatic", c) EXCEPT !.res = "parse_error"]
               /\ UNCHANGED << now, CHANNEL_STATES, keyOrder, actSince, basis, nCreate >>
        ELSE IF ~AutomaticAccepts(parsed.data)
          THEN /\ skew = 0
               /\ lastEvent' = [Event("automatic", c) EXCEPT !.res = "rejected"]
               /\ UNCHANGED << now, CHANNEL_STATES, keyOrder, actSince, basis, nCreate >>
        ELSE /\ now + skew <= MaxTime
             /\ Store(c, AutomaticUpsert(GetOrNew(c, now),
                                         parsed.data.announcement_prompt,
                                         parsed.data.interval_seconds,
                                         now, now + skew))
             /\ now' = now + skew
             /\ lastEvent' = [Event("automatic", c) EXCEPT !.res = "scheduled"]
  /\ UNCHANGED << GEMINI_API_KEY, tickVars, lastDeliv >>

\* /stop channel (lines 567-573)
stop_channel(c) ==
  /\ pc # "notstarted"
  /\ IF Has(CHANNEL_STATES, c)
       THEN /\ CHANNEL_STATES' = [CHANNEL_STATES EXCEPT ![c] = NoState]
            /\ keyOrder' = RemoveKey(keyOrder, c)
            /\ detached' = Detach(detached, CHANNEL_STATES, {c})
            /\ lastEvent' = [Event("stop_channel", c) EXCEPT !.res = "stopped"]
       ELSE /\ lastEvent' = [Event("stop_channel", c) EXCEPT !.res = "none"]
            /\ UNCHANGED << CHANNEL_STATES, keyOrder, detached >>
  /\ UNCHANGED << now, GEMINI_API_KEY, pc, loops, snapshot, idx, message_to_send,
                  owed, attempted, actSince, lastDeliv, basis, nCreate, call, gameVars >>

\* /stop all (lines 575-578)
stop_all ==
  /\ pc # "notstarted"
  /\ CHANNEL_STATES' = [k \in Channels |-> NoState]
  /\ keyOrder' = << >>
  /\ detached' = Detach(detached, CHANNEL_STATES, Channels)
  /\ lastEvent' = [Event("stop_all", 0) EXCEPT !.res = "stopped"]
  /\ UNCHANGED << now, GEMINI_API_KEY, pc, loops, snapshot, idx, message_to_send,
                  owed, attempted, actSince, lastDeliv, basis, nCreate, call, gameVars >>

\* what the two awaits of /test come to: the message is sent, the send fails
\* (Forbidden or another error), or the generation raises
TestOutcomes == {"sent", "send_failed", "gen_raised"}

\* a /test that records its send like the tick loop does
TestWrites_Touch(st, outcome, t) ==
  IF outcome = "sent" THEN [st EXCEPT !.last_bot_send_time = t] ELSE st

\* what /test writes to the schedule it reads (lines 613-638): nothing
TestWrites(st, outcome, t) == st

\* /test (lines 611-638)
test_schedule(c, outcome) ==
  /\ pc # "notstarted"
  /\ IF ~Has(CHANNEL_STATES, c)
       THEN /\ outcome = "sent"
            /\ lastEvent' = [Event("test", c) EXCEPT !.res = "no_schedule"]
            /\ UNCHANGED CHANNEL_STATES
       ELSE /\ outcome = "gen_raised" => CHANNEL_STATES[c].is_automatic
            /\ lastEvent' = [Event("test", c) EXCEPT !.res = outcome]
            /\ CHANNEL_STATES' =
                 [CHANNEL_STATES EXCEPT ![c] = TestWrites(CHANNEL_STATES[c], outcome, now)]
  /\ UNCHANGED << now, GEMINI_API_KEY, keyOrder, tickVars, actSince, lastDeliv,
                  basis, nCreate >>

\* RecordsActivity without the author test of line 467
RecordsActivity_AnyAuthor(reg, c, author) == Has(reg, c)

\* lines 467-471: the author is not the bot and the channel has a schedule
RecordsActivity(reg, c, author) == author # "bot" /\ Has(reg, c)

\* on_message (lines 465-472)
on_message(c, author) ==
  /\ pc # "notstarted"
  /\ CHANNEL_STATES' =
       IF RecordsActivity(CHANNEL_STATES, c, author)
         THEN [CHANNEL_STATES EXCEPT ![c].last_channel_activity_time = now]
         ELSE CHANNEL_STATES
  /\ actSince' = IF author # "bot" /\ Has(CHANNEL_STATES, c)
                   THEN [actSince EXCEPT ![c] = TRUE] ELSE actSince
  /\ lastEvent' = [Event("message", c) EXCEPT !.res = author]
  /\ UNCHANGED << now, GEMINI_API_KEY, keyOrder, tickVars, lastDeliv, basis,
                  nCreate >>

\* ------------------------------------------------------------- environment
\* the clock advances
Advance ==
  /\ now + TimeStep <= MaxTime
  /\ now' = now + TimeStep
  /\ lastEvent' = Event("advance", 0)
  /\ UNCHANGED << GEMINI_API_KEY, CHANNEL_STATES, keyOrder, tickVars, actSince,
                  lastDeliv, basis, nCreate >>

\* ------------------------------------------------------------ AI service
\* A Python string is written as the sequence of its pieces; a piece is one
\* character, or a run of characters of a fixed text of the program.  None
\* is written << >>.
None == << >>

\* str.startswith
startswith(s, prefix) ==
  Len(s) >= Len(prefix) /\ SubSeq(s, 1, Len(prefix)) = prefix

\* line 184
max_retries == 3

\* the texts of the program's error returns
ErrNoKey == << "Error:", " Gemini API Key not configured." >>
ErrStatus(status) == << "Error:", " AI service returned status ", ToString(status) >>
ErrUnexpected(e) == << "An unexpected error occurred: ", e >>
ErrRetries == << "Error:", " Failed to connect to AI service after multiple retries." >>
ErrFormat == << "Error:", " AI response was not in the expected format." >>

\* the words the service may propose for the puzzle: of 5, 6, 12 and 13
\* letters, with a character that is no letter, and empty
Words ==
  { << "T", "i", "g", "e", "r" >>,
    << "P", "l", "a", "n", "e", "t" >>,
    << "r", "e", "f", "r", "i", "g", "e", "r", "a", "t", "o", "r" >>,
    << "e", "x", "t", "r", "a", "o", "r", "d", "i", "n", "a", "r", "y" >>,
    << "i", "c", "e", "-", "c", "r", "e", "a", "m" >>,
    << >> }

\* the JSON texts of a reply to get_hangman_word: an object with the word,
\* with null or a number in its place, without it, and an array
WordTexts ==
  { << "{", "\"word\"", ":", "\"" >> \o w \o << "\"", "}" >> : w \in Words }
  \cup { << "{", "\"word\"", ":", "null", "}" >>,
         << "{", "\"word\"", ":", "7", "}" >>,
         << "{", "}" >>,
         << "[", "]" >> }

\* the texts the service puts in the 'text' part of a reply
Texts == { << "h", "i" >>, << "Error:", " ", "n", "o" >> } \cup WordTexts

\* the letters, in the order of the alphabet
Uppercase ==
  << "A", "B", "C", "D", "E", "F", "G", "H", "I", "J", "K", "L", "M",
     "N", "O", "P", "Q", "R", "S", "T", "U", "V", "W", "X", "Y", "Z" >>

Lowercase ==
  << "a", "b", "c", "d", "e", "f", "g", "h", "i", "j", "k", "l", "m",
     "n", "o", "p", "q", "r", "s", "t", "u", "v", "w", "x", "y", "z" >>

Letters == { Uppercase[i] : i \in 1..26 } \cup { Lowercase[i] : i \in 1..26 }

\* str.isalpha
isalpha(w) == Len(w) > 0 /\ \A i \in 1..Len(w) : w[i] \in Letters

\* str.lower
lower(w) ==
  [ i \in 1..Len(w) |->
      IF \E j \in 1..26 : Uppercase[j] = w[i]
        THEN Lowercase[CHOOSE j \in 1..26 : Uppercase[j] = w[i]]
      ELSE w[i] ]

\* the value json.loads gives for a text, or the JSONDecodeError
NoWord == [t |-> "missing", s |-> None]

json_loads(s) ==
  LET n == Len(s) IN
  IF s = << "{", "}" >> THEN [type |-> "dict", word |-> NoWord]
  ELSE IF s = << "[", "]" >> THEN [type |-> "list", word |-> NoWord]
  ELSE IF n >= 5 /\ s[1] = "{" /\ s[2] = "\"word\"" /\ s[3] = ":" /\ s[n] = "}"
    THEN IF n = 5 /\ s[4] = "null"
           THEN [type |-> "dict", word |-> [t |-> "null", s |-> None]]
         ELSE IF n = 5 /\ s[4] \in {"1", "2", "3", "4", "5", "6", "7", "8", "9"}
           THEN [type |-> "dict", word |-> [t |-> "number", s |-> << s[4] >>]]
         ELSE IF /\ n >= 6 /\ s[4] = "\"" /\ s[n - 1] = "\""
                 /\ \A i \in 5..(n - 2) : s[i] \notin {"\"", "\\"}
           THEN [type |-> "dict", word |-> [t |-> "string", s |-> SubSeq(s, 5, n - 2)]]
         ELSE [type |-> "JSONDecodeError", word |-> NoWord]
  ELSE [type |-> "JSONDecodeError", word |-> NoWord]

\* the JSON documents a 200 response may carry, by the part of the path
\* candidates[0].content.parts[0].text that they hold
NoBody == [shape |-> "none", text |-> None]

Bodies ==
  { [shape |-> "text", text |-> t] : t \in Texts }
  \cup { [shape |-> sh, text |-> None] :
           sh \in {"no_candidates", "empty_candidates", "null_candidates",
                   "no_text", "array"} }

\* what session.post can give at one attempt: a response with a status, the
\* ClientConnectorError, or another exception; a 200 whose body is not JSON
\* makes response.json() raise
Responses ==
  { [kind |-> "status", status |-> 200, json |-> TRUE, body |-> b] : b \in Bodies }
  \cup { [kind |-> "status", status |-> 200, json |-> FALSE, body |-> NoBody] }
  \cup { [kind |-> "status", status |-> st, json |-> FALSE, body |-> NoBody] :
           st \in {429, 403, 500} }
  \cup { [kind |-> k, status |-> 0, json |-> FALSE, body |-> NoBody] :
           k \in {"ClientConnectorError", "Exception"} }

\* the generators that return one text
TextGenerators ==
  { "generate_announcement_content", "generate_shea_compliment",
    "generate_shea_insult", "generate_lyra_compliment", "generate_miwa_compliment" }

Generators == TextGenerators \cup {"get_hangman_word"}

\* out is the text, or the error, that the generator returns; word is the
\* word get_hangman_word returns; game is the word of the HangmanGame made
NoCall ==
  [ fn |-> "none", pc |-> "none", attempt |-> 0, seen |-> << >>, slept |-> << >>,
    result |-> NoBody, error |-> None, out |-> None, raised |-> "",
    word |-> None, game |-> None ]

NewCall(fn) == [NoCall EXCEPT !.fn = fn, !.pc = "start"]

\* a wait that grows by two seconds per attempt
wait_time_Linear(attempt) == 2 * (attempt + 1)

\* lines 191 and 199
wait_time(attempt) == 2 ^ attempt

\* fetch_with_backoff returns (lines 189, 197, 204, 206)
Return(k, result, error) ==
  [k EXCEPT !.pc = "parse", !.result = result, !.error = error]

\* a retry that is never the last one
Retry_NoLimit(k) ==
  [k EXCEPT !.slept = Append(@, wait_time(k.attempt)), !.attempt = @ + 1]

\* lines 191-193 and 199-201: sleep, then the next attempt, or line 206 when
\* range(max_retries) is used up
Retry(k) ==
  LET slept == [k EXCEPT !.slept = Append(@, wait_time(k.attempt)),
                         !.attempt = @ + 1]
  IN IF slept.attempt < max_retries THEN slept
     ELSE Return(slept, NoBody, ErrRetries)

\* a body of the loop in which every status other than 200 is retried
OnResponse_RetryAll(k, r) ==
  IF r.kind = "Exception" THEN Return(k, NoBody, ErrUnexpected(r.kind))
  ELSE IF r.kind = "status" /\ r.status = 200 /\ r.json THEN Return(k, r.body, None)
  ELSE IF r.kind = "status" /\ r.status = 200
    THEN Return(k, NoBody, ErrUnexpected("ContentTypeError"))
  ELSE Retry(k)

\* the body of the loop of fetch_with_backoff (lines 186-204)
OnResponse(k, r) ==
  IF r.kind = "ClientConnectorError" THEN Retry(k)
  ELSE IF r.kind = "Exception" THEN Return(k, NoBody, ErrUnexpected(r.kind))
  ELSE IF r.status = 200
    THEN IF r.json THEN Return(k, r.body, None)
         ELSE Return(k, NoBody, ErrUnexpected("ContentTypeError"))
  ELSE IF r.status = 429 THEN Retry(k)
  ELSE Return(k, NoBody, ErrStatus(r.status))

\* the text a generator returns when the reply has no text (lines 231, 300,
\* 318, 338, 358)
Default(fn) ==
  IF fn = "generate_announcement_content"
    THEN << "AI failed to generate a response." >>
  ELSE << "canned line of ", fn >>

\* result.get('candidates', [{}])[0].get('content', {}).get('parts', [{}])[0]
\*   .get('text', default): the value, or the exception it raises
ExtractText(body, default) ==
  CASE body.shape = "text" -> [val |-> body.text, exc |-> ""]
    [] body.shape \in {"no_candidates", "no_text"} -> [val |-> default, exc |-> ""]
    [] body.shape = "empty_candidates" -> [val |-> None, exc |-> "IndexError"]
    [] body.shape = "null_candidates" -> [val |-> None, exc |-> "TypeError"]
    [] body.shape = "array" -> [val |-> None, exc |-> "AttributeError"]

\* the exceptions the generators catch (lines 233, 301, 319, 339, 359)
Caught == {"IndexError", "KeyError", "TypeError"}

\* a generator is called: the check of the credential (lines 213, 293, ...)
generator_start(fn) ==
  /\ call.pc = "start"
  /\ call.fn = fn
  /\ call' = IF GEMINI_API_KEY THEN [call EXCEPT !.pc = "post"]
             ELSE [call EXCEPT !.pc = "done", !.out = ErrNoKey]
  /\ UNCHANGED << botVars, gameVars >>

\* one attempt of fetch_with_backoff
fetch_with_backoff(r) ==
  /\ call.pc = "post"
  /\ call' = [OnResponse(call, r) EXCEPT !.seen = Append(@, r)]
  /\ UNCHANGED << botVars, gameVars >>

\* a text generator after its fetch (lines 227-234)
generator_finish(fn) ==
  /\ call.pc = "parse"
  /\ call.fn = fn
  /\ fn \in TextGenerators
  /\ LET x == ExtractText(call.result, Default(fn))
     IN call' = IF call.error # None THEN [call EXCEPT !.pc = "done", !.out = call.error]
                ELSE IF x.exc = "" THEN [call EXCEPT !.pc = "done", !.out = x.val]
                ELSE IF x.exc \in Caught THEN [call EXCEPT !.pc = "done", !.out = ErrFormat]
                ELSE [call EXCEPT !.pc = "raised", !.raised = x.exc]
  /\ UNCHANGED << botVars, gameVars >>

\* line 398, negated, for a word that is a string
AcceptsWord(word) ==
  /\ word # << >>
  /\ 6 <= Len(word) /\ Len(word) <= 12
  /\ isalpha(word)

\* lines 396-401 on the value of parsed_data.get('word'): the word returned,
\* or the exception raised (len() of a number)
ChooseWord(word) ==
  IF word.t \in {"missing", "null"}
    THEN [val |-> << "d", "e", "f", "a", "u", "l", "t" >>, exc |-> ""]
  ELSE IF word.t = "number" THEN [val |-> None, exc |-> "TypeError"]
  ELSE IF ~AcceptsWord(word.s)
    THEN [val |-> << "d", "e", "f", "a", "u", "l", "t" >>, exc |-> ""]
  ELSE [val |-> lower(word.s), exc |-> ""]

\* lines 393-401: the word, or the exception raised on the way to it
ReadWord(body) ==
  LET x == ExtractText(body, << "{", "}" >>)
      d == json_loads(x.val)
  IN IF x.exc # "" THEN x
     ELSE IF d.type = "JSONDecodeError" THEN [val |-> None, exc |-> d.type]
     ELSE IF d.type = "list" THEN [val |-> None, exc |-> "AttributeError"]
     ELSE ChooseWord(d.word)

\* get_hangman_word after its fetch (lines 390-406)
get_hangman_word ==
  /\ call.pc = "parse"
  /\ call.fn = "get_hangman_word"
  /\ LET x == ReadWord(call.result)
     IN call' =
          IF call.error # None THEN [call EXCEPT !.pc = "done", !.out = call.error]
          ELSE IF x.exc = "" THEN [call EXCEPT !.pc = "done", !.word = x.val]
          ELSE IF x.exc \in Caught \cup {"JSONDecodeError"}
            THEN [call EXCEPT !.pc = "done",
                              !.word = << "f", "a", "l", "l", "b", "a", "c", "k" >>]
          ELSE [call EXCEPT !.pc = "raised", !.raised = x.exc]
  /\ UNCHANGED << botVars, gameVars >>

\* /hangman with no game and no guess, after get_hangman_word (lines
\* 713-721); HangmanGame.__init__ keeps word.lower() (line 111)
hangman ==
  /\ call.pc = "done"
  /\ call.fn = "get_hangman_word"
  /\ call' = IF call.out # None THEN [call EXCEPT !.pc = "no_game"]
             ELSE [call EXCEPT !.pc = "game", !.game = lower(call.word)]
  /\ UNCHANGED << botVars, gameVars >>

\* --------------------------------------------------------------- hangman
\* the channels in which hangman is played
GameChannels == {1}

\* the HangmanGame objects made in a run, and the /hangman commands that
\* may be suspended in an await at one time
MaxGames == 2
MaxTasks == 2

\* the word get_hangman_word returns
SecretWords == { << "b", "a", "n", "a", "n", "a" >> }

\* letters that are not in the word; they are tried in this order
WrongLetters == << "q", "v", "w", "x", "y", "z" >>

\* the guesses as the users type them: the letters of the word, one of
\* them in upper case, the word in mixed case, and another word
RightGuesses ==
  { << "a" >>, << "A" >>, << "b" >>, << "n" >>, << "B", "a", "n", "a", "n", "a" >> }

WrongWords == { << "b", "a", "n", "d", "i", "t" >> }

\* every guess of the model
AllGuesses ==
  RightGuesses \cup WrongWords
  \cup { << WrongLetters[k] >> : k \in 1..Len(WrongLetters) }

NoGame == [none |-> TRUE]

\* HangmanGame.__init__ (lines 110-116); message_id None is written 0.
\* submitted is an observation: the guesses, in lower case, that were made
\* while the game was in progress
HangmanGame(word) ==
  [ word |-> lower(word), guesses |-> {}, tries_left |-> 6, message_id |-> 0,
    game_over |-> FALSE, win |-> FALSE, submitted |-> {} ]

\* the number of the letters of WrongLetters that were guessed
Misses(game) ==
  Cardinality({ i \in 1..Len(WrongLetters) : << WrongLetters[i] >> \in game.guesses })

\* what a user may type as a guess in a game: a right guess, a wrong word,
\* the first wrong letter not yet tried and the last one tried
Guesses(game) ==
  RightGuesses \cup WrongWords
  \cup { << WrongLetters[i] >> :
           i \in { j \in 1..Len(WrongLetters) :
                     j = Misses(game) \/ j = Misses(game) + 1 } }

\* x in self.word, for a string x of one character
InWord(x, word) == \E i \in 1..Len(word) : << word[i] >> = x

\* all(letter in self.guesses for letter in self.word)
AllGuessed(game) ==
  \A i \in 1..Len(game.word) : << game.word[i] >> \in game.guesses

\* a test that lets a finished game take guesses
Refused_OnlyRepeats(game, guess) == guess \in game.guesses

\* a test that lets a guess be made again
Refused_OnlyFinished(game, guess) == game.game_over

\* line 120
Refused(game, guess) == game.game_over \/ guess \in game.guesses

\* scoring in which a wrong word costs two tries
Score_WordCostsTwo(game, guess) ==
  IF Len(guess) > 1
    THEN IF guess = game.word
           THEN [game EXCEPT !.win = TRUE, !.game_over = TRUE,
                             !.guesses = @ \cup { << game.word[i] >> :
                                                    i \in 1..Len(game.word) }]
         ELSE [game EXCEPT !.tries_left = @ - 2]
  ELSE IF Len(guess) = 1
    THEN [game EXCEPT !.guesses = @ \cup {guess},
                      !.tries_left = IF InWord(guess, game.word) THEN @ ELSE @ - 1]
  ELSE game

\* lines 123-136: a word guess, or a letter guess
Score(game, guess) ==
  IF Len(guess) > 1
    THEN IF guess = game.word
           THEN [game EXCEPT !.win = TRUE, !.game_over = TRUE,
                             !.guesses = @ \cup { << game.word[i] >> :
                                                    i \in 1..Len(game.word) }]
         ELSE [game EXCEPT !.tries_left = @ - 1]
  ELSE IF Len(guess) = 1
    THEN [game EXCEPT !.guesses = @ \cup {guess},
                      !.tries_left = IF InWord(guess, game.word) THEN @ ELSE @ - 1]
  ELSE game

\* a game that is never won by its letters
CheckWin_Never(game) == game

\* lines 139-141
CheckWin(game) ==
  IF AllGuessed(game) THEN [game EXCEPT !.win = TRUE, !.game_over = TRUE]
  ELSE game

\* a game that goes on with no try left
CheckLose_BelowZero(game) ==
  IF game.tries_left < 0 THEN [game EXCEPT !.game_over = TRUE, !.win = FALSE]
  ELSE game

\* lines 144-146
CheckLose(game) ==
  IF game.tries_left <= 0 THEN [game EXCEPT !.game_over = TRUE, !.win = FALSE]
  ELSE game

\* HangmanGame.make_guess (lines 118-146)
make_guess(game, guess) ==
  LET g == lower(guess) IN
  IF Refused(game, g) THEN game
  ELSE CheckLose(CheckWin(Score(game, g)))

\* a /hangman command suspended in an await
NoTask == [kind |-> "none", pc |-> "", ch |-> 0, game |-> 0, guess |-> << >>]

\* the lowest free place for a suspended command, or 0
FreeTask == IF \E i \in 1..MaxTasks : tasks[i] = NoTask
              THEN CHOOSE i \in 1..MaxTasks :
                     tasks[i] = NoTask /\ \A j \in 1..(i - 1) : tasks[j] # NoTask
            ELSE 0

\* a HangmanGame object that nothing refers to any more
Collected == [none |-> FALSE]

\* the objects after those that neither HANGMAN_GAMES nor a suspended
\* command refers to are collected
Collect(heap, reg, ts) ==
  [ g \in 1..MaxGames |->
      IF /\ heap[g] # NoGame
         /\ \A c \in GameChannels : reg[c] # g
         /\ \A i \in 1..MaxTasks : ts[i].game # g
        THEN Collected
      ELSE heap[g] ]

\* del HANGMAN_GAMES[channel_id] if the key is there (lines 734, 755, 764)
Forget(reg, c) == [reg EXCEPT ![c] = 0]

\* /hangman without a guess (lines 705-712, 730-733): a game of the channel
\* refuses the start; without one the command defers and asks for a word
hangman_new(c) ==
  /\ IF HANGMAN_GAMES[c] # 0
       THEN UNCHANGED << HANGMAN_GAMES, games, tasks >>
     ELSE /\ FreeTask # 0
          /\ tasks' = [tasks EXCEPT ![FreeTask] =
                         [NoTask EXCEPT !.kind = "start", !.pc = "word", !.ch = c]]
          /\ UNCHANGED << HANGMAN_GAMES, games >>
  /\ UNCHANGED << botVars, call >>

\* what get_hangman_word comes to for the command: a word, an error, or
\* an exception
WordOutcomes == {"word", "error", "raise"}

\* lines 713-719: the word arrives; HangmanGame(word) and the first render
hangman_word(i, outcome, word) ==
  /\ tasks[i].kind = "start" /\ tasks[i].pc = "word"
  /\ IF outcome = "word"
       THEN /\ \E g \in 1..MaxGames :
                 /\ games[g] = NoGame
                 /\ \A h \in 1..(g - 1) : games[h] # NoGame
                 /\ games' = [games EXCEPT ![g] = HangmanGame(word)]
                 /\ tasks' = [tasks EXCEPT ![i].pc = "render", ![i].game = g]
       ELSE /\ tasks' = [tasks EXCEPT ![i] = NoTask]
            /\ UNCHANGED games
  /\ UNCHANGED << HANGMAN_GAMES, botVars, call >>

\* what followup.send of line 718 comes to
RenderOutcomes == {"sent", "raise"}

\* lines 718-721: the render returns and the game is registered
hangman_render(i, outcome) ==
  /\ tasks[i].kind = "start" /\ tasks[i].pc = "render"
  /\ LET g == tasks[i].game
         c == tasks[i].ch
         left == [tasks EXCEPT ![i] = NoTask]
         reg == IF outcome = "sent" THEN [HANGMAN_GAMES EXCEPT ![c] = g]
                ELSE HANGMAN_GAMES
         heap == IF outcome = "sent" THEN [games EXCEPT ![g].message_id = g]
                 ELSE games
     IN /\ HANGMAN_GAMES' = reg
        /\ tasks' = left
        /\ games' = Collect(heap, reg, left)
  /\ UNCHANGED << botVars, call >>

\* /hangman with a guess (lines 725-738): without a game the guess is
\* refused; with one the command keeps the game object and defers.  The
\* users guess at one game at a time: no guess is typed while a guess at
\* another game object is still suspended.
hangman_guess(c, guess) ==
  /\ IF HANGMAN_GAMES[c] = 0
       THEN UNCHANGED << HANGMAN_GAMES, games, tasks >>
     ELSE IF games[HANGMAN_GAMES[c]].message_id = 0
       THEN /\ HANGMAN_GAMES' = Forget(HANGMAN_GAMES, c)
            /\ games' = Collect(games, Forget(HANGMAN_GAMES, c), tasks)
            /\ UNCHANGED tasks
     ELSE /\ FreeTask # 0
          /\ guess \in Guesses(games[HANGMAN_GAMES[c]])
          /\ \A i \in 1..MaxTasks :
               tasks[i].kind = "guess" => tasks[i].game = HANGMAN_GAMES[c]
          /\ tasks' = [tasks EXCEPT ![FreeTask] =
                         [ kind |-> "guess", pc |-> "defer", ch |-> c,
                           game |-> HANGMAN_GAMES[c], guess |-> guess ]]
          /\ UNCHANGED << HANGMAN_GAMES, games >>
  /\ UNCHANGED << botVars, call >>

\* line 740: game.make_guess(guess), after the defer
hangman_make_guess(i) ==
  /\ tasks[i].kind = "guess" /\ tasks[i].pc = "defer"
  /\ games' = [games EXCEPT ![tasks[i].game] =
                  [make_guess(@, tasks[i].guess) EXCEPT
                     !.submitted = IF games[tasks[i].game].game_over THEN @
                                   ELSE @ \cup {lower(tasks[i].guess)}]]
  /\ tasks' = [tasks EXCEPT ![i].pc = "edit"]
  /\ UNCHANGED << HANGMAN_GAMES, botVars, call >>

\* what lines 742-758 come to: the message is edited, it is gone
\* (discord.NotFound), another exception is caught at line 756, or the
\* followup.send of a handler raises and the exception leaves the command
UpdateOutcomes == {"edited", "NotFound", "error", "raise"}

\* lines 742-765: the update of the message returns, and the clean-up
hangman_update(i, outcome) ==
  /\ tasks[i].kind = "guess" /\ tasks[i].pc = "edit"
  /\ LET g == tasks[i].game
         c == tasks[i].ch
         gone == IF outcome = "NotFound" THEN Forget(HANGMAN_GAMES, c)
                 ELSE HANGMAN_GAMES
         reg == IF outcome = "raise" THEN HANGMAN_GAMES
                ELSE IF games[g].game_over THEN Forget(gone, c)
                ELSE gone
         left == [tasks EXCEPT ![i] = NoTask]
     IN /\ HANGMAN_GAMES' = reg
        /\ tasks' = left
        /\ games' = Collect(games, reg, left)
  /\ UNCHANGED << botVars, call >>

\* no game, no game object and no command in flight
NoGames ==
  /\ HANGMAN_GAMES = [c \in GameChannels |-> 0]
  /\ games = [g \in 1..MaxGames |-> NoGame]
  /\ tasks = [i \in 1..MaxTasks |-> NoTask]

\* ------------------------------------------------------------ specification
Init ==
  /\ now = 0
  /\ GEMINI_API_KEY = TRUE
  /\ CHANNEL_STATES = [c \in Channels |-> NoState]
  /\ keyOrder = << >>
  /\ pc = "notstarted"
  /\ loops = 0
  /\ snapshot = << >>
  /\ idx = 0
  /\ detached = [c \in Channels |-> NoState]
  /\ message_to_send = ""
  /\ nCreate = 0
  /\ lastEvent = Event("init", 0)
  /\ actSince = [c \in Channels |-> FALSE]
  /\ lastDeliv = [c \in Channels |-> -1]
  /\ basis = NoBasis
  /\ owed = {}
  /\ attempted = [c \in Channels |-> 0]
  /\ call = NoCall
  /\ NoGames

Next ==
  \/ on_ready
  \/ \E live \in SUBSET Channels : TickStart(live)
  \/ \E o \in GenOutcomes : GenDone(o)
  \/ \E o \in SendOutcomes, live \in SUBSET Channels : SendDone(o, live)
  \/ \E c \in ManualChannels(nCreate), k \in ClockReads(now) :
       \E m \in Messages, x \in ManualInputs(c) : manual_schedule(c, m, x, k)
  \/ \E c \in AutomaticChannels, r \in Replies, k \in ClockReads(now) :
       automatic_schedule(c, r, k)
  \/ \E c \in Channels : stop_channel(c)
  \/ stop_all
  \/ \E c \in TestChannels, o \in TestOutcomes : test_schedule(c, o)
  \/ \E c \in Channels : \E a \in Authors(c) : on_message(c, a)
  \/ Advance

Spec == Init /\ [][Next]_vars

\* the generators of the AI service, each called once
InitAI ==
  /\ now = 0
  /\ GEMINI_API_KEY \in BOOLEAN
  /\ CHANNEL_STATES = [c \in Channels |-> NoState]
  /\ keyOrder = << >>
  /\ pc = "notstarted"
  /\ loops = 0
  /\ snapshot = << >>
  /\ idx = 0
  /\ detached = [c \in Channels |-> NoState]
  /\ message_to_send = ""
  /\ nCreate = 0
  /\ lastEvent = Event("init", 0)
  /\ actSince = [c \in Channels |-> FALSE]
  /\ lastDeliv = [c \in Channels |-> -1]
  /\ basis = NoBasis
  /\ owed = {}
  /\ attempted = [c \in Channels |-> 0]
  /\ call \in { NewCall(fn) : fn \in Generators }
  /\ NoGames

NextAI ==
  \/ \E fn \in Generators : generator_start(fn)
  \/ \E r \in Responses : fetch_with_backoff(r)
  \/ \E fn \in TextGenerators : generator_finish(fn)
  \/ get_hangman_word
  \/ hangman

SpecAI == InitAI /\ [][NextAI]_vars

\* the /hangman commands in the channels of GameChannels
InitGame ==
  /\ now = 0
  /\ GEMINI_API_KEY = TRUE
  /\ CHANNEL_STATES = [c \in Channels |-> NoState]
  /\ keyOrder = << >>
  /\ pc = "notstarted"
  /\ loops = 0
  /\ snapshot = << >>
  /\ idx = 0
  /\ detached = [c \in Channels |-> NoState]
  /\ message_to_send = ""
  /\ nCreate = 0
  /\ lastEvent = Event("init", 0)
  /\ actSince = [c \in Channels |-> FALSE]
  /\ lastDeliv = [c \in Channels |-> -1]
  /\ basis = NoBasis
  /\ owed = {}
  /\ attempted = [c \in Channels |-> 0]
  /\ call = NoCall
  /\ NoGames

NextGame ==
  \/ \E c \in GameChannels : hangman_new(c)
  \/ \E i \in 1..MaxTasks, o \in WordOutcomes, w \in SecretWords :
       hangman_word(i, o, w)
  \/ \E i \in 1..MaxTasks, o \in RenderOutcomes : hangman_render(i, o)
  \/ \E c \in GameChannels : \E g \in AllGuesses : hangman_guess(c, g)
  \/ \E i \in 1..MaxTasks : hangman_make_guess(i)
  \/ \E i \in 1..MaxTasks, o \in UpdateOutcomes : hangman_update(i, o)

SpecGame == InitGame /\ [][NextGame]_vars

\* ------------------------------------------------------------------- claims
\* branch labels of a snapshot entry evaluated by lines 416-441 in a step
Evaluated == {"off", "notdue", "idle", "gone", "gen", "send"}

\* C1: at a tick where the registered schedule of a channel is due
\* (now - lastSendTime >= intervalSeconds) and lastActivityTime <= lastSendTime,
\* the tick issues no send for the channel, delivers nothing, and sets
\* lastSendTime to the current time, so that the schedule is not due any more.
C1_IdleSuppression ==
  [][ \A c \in Channels :
        ( /\ lastEvent'.br[c] \in Evaluated
          /\ detached[c] = NoState
          /\ Has(CHANNEL_STATES, c)
          /\ CHANNEL_STATES[c].interval_seconds # 0
          /\ now - CHANNEL_STATES[c].last_bot_send_time
               >= CHANNEL_STATES[c].interval_seconds
          /\ CHANNEL_STATES[c].last_channel_activity_time
               <= CHANNEL_STATES[c].last_bot_send_time )
        => ( /\ attempted'[c] = attempted[c]
             /\ ~(pc' \in {"gen", "send"} /\ snapshot'[idx'] = c)
             /\ lastDeliv'[c] = lastDeliv[c]
             /\ Has(CHANNEL_STATES', c)
             /\ CHANNEL_STATES'[c] =
                  [CHANNEL_STATES[c] EXCEPT !.last_bot_send_time = now]
             /\ now' - CHANNEL_STATES'[c].last_bot_send_time
                  < CHANNEL_STATES'[c].interval_seconds ) ]_vars

C1_Witness ==
  \E c \in Channels :
    /\ lastEvent.op = "tick"
    /\ lastEvent.br[c] = "idle"
    /\ Has(CHANNEL_STATES, c)
    /\ CHANNEL_STATES[c].last_bot_send_time = now
    /\ CHANNEL_STATES[c].last_channel_activity_time < now

\* a scheduled (tick-loop) delivery to channel c happens in this step
Delivers(c) ==
  lastEvent'.op = "send_done" /\ lastEvent'.ch = c /\ lastEvent'.res = "ok"

\* C2: every scheduled delivery to a channel is preceded by a non-bot message
\* in that channel that came after the channel's previous scheduled delivery
\* and after the creation of its schedule.
C2_FiresOnlyAfterActivity ==
  [][ \A c \in Channels : Delivers(c) => basis.act ]_vars

\* C3: no two scheduled deliveries to one channel are less than the channel's
\* current intervalSeconds apart.
C3_DeliveriesSpaced ==
  [][ \A c \in Channels :
        (Delivers(c) /\ lastDeliv[c] >= 0)
          => basis.at - lastDeliv[c] >= basis.iv ]_vars

\* C4: a channel a tick finds due, active and resolvable gets exactly one
\* send in that tick: at most one is ever issued, and the tick does not end
\* while it still owes one.
C4_ExactlyOneAttempt ==
  /\ \A c \in Channels : attempted[c] <= 1
  /\ pc \notin {"gen", "send"} => owed = {}

\* C5: /test leaves the whole registry as it was, whatever its outcome, so the
\* time at which the schedule is next due does not move.
C5_TestLeavesSchedule ==
  [][ lastEvent'.op = "test"
        => /\ CHANNEL_STATES' = CHANNEL_STATES
           /\ keyOrder' = keyOrder ]_vars

C5_Witness ==
  /\ lastEvent.op = "test"
  /\ lastEvent.res = "sent"
  /\ Has(CHANNEL_STATES, lastEvent.ch)
  /\ CHANNEL_STATES[lastEvent.ch].last_bot_send_time < now

\* C6: every schedule in the registry has intervalSeconds >= 10.
C6_IntervalAtLeastTen ==
  \A c \in Channels :
    Has(CHANNEL_STATES, c) => CHANNEL_STATES[c].interval_seconds >= 10

C6_Witness ==
  /\ Has(CHANNEL_STATES, 1) /\ CHANNEL_STATES[1].is_automatic
  /\ CHANNEL_STATES[1].interval_seconds = 10
  /\ Has(CHANNEL_STATES, 2) /\ ~CHANNEL_STATES[2].is_automatic

\* C7: a /manual request with interval <= 0 or below 10 seconds, and an
\* /automatic request whose reply is an error, does not parse or lacks the
\* prompt, leave the registry exactly as it was.
C7_RejectedCreateIsNoOp ==
  [][ /\ \A c \in Channels, k \in ClockReads(now) :
           \A m \in Messages, x \in ManualInputs(c) :
             (manual_schedule(c, m, x, k) /\ (x <= 0 \/ x \div 2 < 10))
               => (CHANNEL_STATES' = CHANNEL_STATES /\ keyOrder' = keyOrder)
      /\ \A c \in AutomaticChannels, r \in Replies, k \in ClockReads(now) :
           (automatic_schedule(c, r, k) /\ (r.kind # "ok" \/ r.prompt = ""))
             => (CHANNEL_STATES' = CHANNEL_STATES /\ keyOrder' = keyOrder) ]_vars

C7_Witness ==
  /\ lastEvent.op \in {"manual", "automatic"}
  /\ lastEvent.res \in {"rejected", "parse_error"}
  /\ Has(CHANNEL_STATES, lastEvent.ch)

\* C8 as claimed: after an accepted /manual or /automatic the stored schedule
\* is the very schedule the same command produces on a channel that had no
\* schedule; no field of the prior schedule survives.
C8_UpsertIdenticalToFresh ==
  [][ /\ \A c \in Channels, k \in ClockReads(now) :
           \A m \in Messages, x \in ManualInputs(c) :
             (manual_schedule(c, m, x, k) /\ x > 0 /\ x \div 2 >= 10)
               => CHANNEL_STATES'[c] =
                    [ scheduled_channel_id       |-> c,
                      last_channel_activity_time |-> now',
                      last_bot_send_time         |-> now,
                      scheduled_message_content  |-> m,
                      is_automatic               |-> FALSE,
                      ai_prompt                  |-> "",
                      interval_seconds           |-> x \div 2 ]
      /\ \A c \in AutomaticChannels, r \in Replies, k \in ClockReads(now) :
           (automatic_schedule(c, r, k) /\ r.kind = "ok" /\ r.prompt # "")
             => CHANNEL_STATES'[c] =
                  [ scheduled_channel_id       |-> c,
                    last_channel_activity_time |-> now',
                    last_bot_send_time         |-> now,
                    scheduled_message_content  |-> "",
                    is_automatic               |-> TRUE,
                    ai_prompt                  |-> r.prompt,
                    interval_seconds           |->
                      IF r.interval.has /\ r.interval.val >= 10
                        THEN r.interval.val ELSE 10 ] ]_vars

\* C8, amended: after an accepted /manual or /automatic the stored schedule has
\* the given interval, the given mode and that mode's content, lastSendTime
\* set to the first clock reading of the command and lastActivityTime to its
\* second; the content field of the other mode keeps the value it had in the
\* prior schedule of the channel, and is empty when there was none.
C8_UpsertOverwritesSelectedMode ==
  [][ /\ \A c \in Channels, k \in ClockReads(now) :
           \A m \in Messages, x \in ManualInputs(c) :
             (manual_schedule(c, m, x, k) /\ x > 0 /\ x \div 2 >= 10)
               => CHANNEL_STATES'[c] =
                    [ scheduled_channel_id       |-> c,
                      last_channel_activity_time |-> now',
                      last_bot_send_time         |-> now,
                      scheduled_message_content  |-> m,
                      is_automatic               |-> FALSE,
                      ai_prompt                  |->
                        IF CHANNEL_STATES[c] # NoState
                          THEN CHANNEL_STATES[c].ai_prompt ELSE "",
                      interval_seconds           |-> x \div 2 ]
      /\ \A c \in AutomaticChannels, r \in Replies, k \in ClockReads(now) :
           (automatic_schedule(c, r, k) /\ r.kind = "ok" /\ r.prompt # "")
             => CHANNEL_STATES'[c] =
                  [ scheduled_channel_id       |-> c,
                    last_channel_activity_time |-> now',
                    last_bot_send_time         |-> now,
                    scheduled_message_content  |->
                      IF CHANNEL_STATES[c] # NoState
                        THEN CHANNEL_STATES[c].scheduled_message_content ELSE "",
                    is_automatic               |-> TRUE,
                    ai_prompt                  |-> r.prompt,
                    interval_seconds           |->
                      IF r.interval.has /\ r.interval.val >= 10
                        THEN r.interval.val ELSE 10 ] ]_vars

C8_Witness ==
  /\ lastEvent.op = "manual"
  /\ lastEvent.res = "scheduled"
  /\ CHANNEL_STATES[lastEvent.ch] # NoState
  /\ ~CHANNEL_STATES[lastEvent.ch].is_automatic
  /\ CHANNEL_STATES[lastEvent.ch].ai_prompt # ""
  /\ CHANNEL_STATES[lastEvent.ch].interval_seconds = 20

\* C9: an inbound message sets last_channel_activity_time of the schedule of
\* its channel to now when the channel has a schedule and the author is not
\* the bot; it creates no entry, changes no other field of that schedule and
\* no schedule of another channel.
C9_RecordActivityFrame ==
  [][ \A c \in Channels :
        (lastEvent'.op = "message" /\ lastEvent'.ch = c)
          => /\ keyOrder' = keyOrder
             /\ \A k \in Channels \ {c} : CHANNEL_STATES'[k] = CHANNEL_STATES[k]
             /\ CHANNEL_STATES[c] = NoState => CHANNEL_STATES'[c] = NoState
             /\ CHANNEL_STATES[c] # NoState =>
                  CHANNEL_STATES'[c] =
                    IF lastEvent'.res = "bot"
                      THEN CHANNEL_STATES[c]
                      ELSE [CHANNEL_STATES[c] EXCEPT
                              !.last_channel_activity_time = now] ]_vars

C9_Witness ==
  /\ lastEvent.op = "message"
  /\ lastEvent.res = "user"
  /\ CHANNEL_STATES[lastEvent.ch] # NoState
  /\ CHANNEL_STATES[lastEvent.ch].last_channel_activity_time = now
  /\ CHANNEL_STATES[lastEvent.ch].last_bot_send_time < now
  /\ \E k \in Channels \ {lastEvent.ch} : CHANNEL_STATES[k] # NoState

\* what a tick step does to a channel it processes, other than nothing:
\* restart its timer, remove it
Touching == {"sent", "idle", "gone", "forbidden"}

\* C10: when the tick finds the target of a due, active schedule unresolvable,
\* or the send to it fails with discord.Forbidden, the channel has no schedule
\* afterwards, nothing is delivered to it, the tick is not left working on it,
\* and the schedule of every other channel is as it was unless the tick's own
\* processing of that channel restarted its timer or removed it.
C10_RemovedOnGoneOrForbidden ==
  [][ \A c \in Channels :
        ( \/ lastEvent'.br[c] = "gone"
          \/ /\ lastEvent'.op = "send_done"
             /\ lastEvent'.ch = c
             /\ lastEvent'.res = "forbidden" )
        => /\ CHANNEL_STATES'[c] = NoState
           /\ \A i \in 1..Len(keyOrder') : keyOrder'[i] # c
           /\ ~(pc' \in {"gen", "send"} /\ snapshot'[idx'] = c)
           /\ lastDeliv'[c] = lastDeliv[c]
           /\ \A k \in Channels \ {c} :
                lastEvent'.br[k] \notin Touching
                  => CHANNEL_STATES'[k] = CHANNEL_STATES[k] ]_vars

C10_Witness ==
  /\ lastEvent.op = "send_done"
  /\ lastEvent.res = "forbidden"
  /\ CHANNEL_STATES[lastEvent.ch] = NoState
  /\ pc = "idle"
  /\ \E k \in Channels \ {lastEvent.ch} :
       /\ CHANNEL_STATES[k] # NoState
       /\ lastEvent.br[k] = "notdue"

\* C11: when channel.send fails with an error other than discord.Forbidden,
\* the registry entry of the channel is left as it is, nothing is delivered,
\* the tick does not go back to the channel, and any tick that evaluates a
\* registered schedule that is due and active starts a delivery for it
\* (or finds its target gone), so the failed one is tried again.
C11_FailureKeepsSchedule ==
  [][ \A c \in Channels :
        /\ ( /\ lastEvent'.op = "send_done"
             /\ lastEvent'.ch = c
             /\ lastEvent'.res = "other" )
           => /\ CHANNEL_STATES'[c] = CHANNEL_STATES[c]
              /\ lastDeliv'[c] = lastDeliv[c]
              /\ ~(pc' \in {"gen", "send"} /\ snapshot'[idx'] = c)
        /\ ( /\ lastEvent'.br[c] \in Evaluated
             /\ detached[c] = NoState
             /\ CHANNEL_STATES[c] # NoState
             /\ CHANNEL_STATES[c].interval_seconds # 0
             /\ now - CHANNEL_STATES[c].last_bot_send_time
                  >= CHANNEL_STATES[c].interval_seconds
             /\ CHANNEL_STATES[c].last_channel_activity_time
                  > CHANNEL_STATES[c].last_bot_send_time )
           => lastEvent'.br[c] \in {"gen", "send", "gone"} ]_vars

C11_Witness ==
  /\ lastEvent.op = "send_done"
  /\ lastEvent.res = "other"
  /\ pc = "idle"
  /\ CHANNEL_STATES[lastEvent.ch] # NoState
  /\ now - CHANNEL_STATES[lastEvent.ch].last_bot_send_time
       >= CHANNEL_STATES[lastEvent.ch].interval_seconds
  /\ CHANNEL_STATES[lastEvent.ch].last_channel_activity_time
       > CHANNEL_STATES[lastEvent.ch].last_bot_send_time

\* C12: the tick tolerates the removal of schedules while it is suspended: no
\* step of the loop body ends the loop task, unless it is the generation call
\* itself that raises.
C12_ToleratesRemoval ==
  [][ ( \/ lastEvent'.op \in {"tick", "send_done"}
        \/ (lastEvent'.op = "gen_done" /\ lastEvent'.res # "raise") )
      => pc' # "crashed" ]_vars

\* C13: a pending generation call for one channel does not hold up the other
\* channels: the clock never moves on while the tick is suspended in a
\* generation call and another registered schedule is due and active and has
\* not been attended to in this tick.
C13_GenerationDoesNotBlock ==
  [][ (lastEvent'.op = "advance" /\ pc = "gen")
      => \A k \in Channels \ {snapshot[idx]} :
           ~ ( /\ CHANNEL_STATES[k] # NoState
               /\ attempted[k] = 0
               /\ CHANNEL_STATES[k].interval_seconds # 0
               /\ now - CHANNEL_STATES[k].last_bot_send_time
                    >= CHANNEL_STATES[k].interval_seconds
               /\ CHANNEL_STATES[k].last_channel_activity_time
                    > CHANNEL_STATES[k].last_bot_send_time ) ]_vars

\* C14: no task of the tick loop runs before the first on_ready, and however
\* often on_ready is signalled at most one task of the loop is running; the
\* loop is at work only while that one task runs.
C14_LoopStartedOnce ==
  /\ loops \in {0, 1}
  /\ pc = "notstarted" => loops = 0
  /\ pc \in {"idle", "gen", "send"} <=> loops = 1

C14_Witness ==
  /\ lastEvent.op = "ready"
  /\ pc \in {"gen", "send"}
  /\ loops = 1

\* the attempt was rate-limited or could not connect
Transient(r) ==
  \/ r.kind = "ClientConnectorError"
  \/ r.kind = "status" /\ r.status = 429

\* C15: when a 200 with a JSON payload arrives at attempt k <= 3 and every
\* earlier attempt was a 429 or a connection failure, fetch_with_backoff
\* returns that payload and no error, and has slept 2^i seconds after each
\* failed attempt i (counted from 0) and at no other time.
C15_SuccessAfterTransient ==
  LET k == Len(call.seen) IN
  ( /\ k \in 1..3
    /\ call.seen[k].kind = "status" /\ call.seen[k].status = 200 /\ call.seen[k].json
    /\ \A i \in 1..(k - 1) : Transient(call.seen[i]) )
  => /\ call.pc \notin {"start", "post"}
     /\ call.result = call.seen[k].body
     /\ call.error = << >>
     /\ call.slept = [i \in 1..(k - 1) |-> 2 ^ (i - 1)]

C15_Witness ==
  /\ Len(call.seen) = 3
  /\ \A i \in 1..2 : call.seen[i].kind = "status" /\ call.seen[i].status = 429
  /\ call.seen[3].status = 200 /\ call.seen[3].json
  /\ call.result.shape = "text"
  /\ call.slept = << 1, 2 >>
  /\ call.pc = "parse"

\* C16: fetch_with_backoff makes at most 3 attempts and has returned after
\* the third; when all 3 were 429s or connection failures, in any mix, it
\* returns no response and the error "Failed to connect to AI service after
\* multiple retries."
C16_Exhaustion ==
  /\ Len(call.seen) <= 3
  /\ Len(call.seen) = 3 => call.pc \notin {"start", "post"}
  /\ ( Len(call.seen) = 3 /\ \A i \in 1..3 : Transient(call.seen[i]) )
     => /\ call.result = NoBody
        /\ call.error = << "Error:",
                          " Failed to connect to AI service after multiple retries." >>

C16_Witness ==
  /\ Len(call.seen) = 3
  /\ call.seen[1].kind = "ClientConnectorError"
  /\ call.seen[2].kind = "status" /\ call.seen[2].status = 429
  /\ call.seen[3].kind = "ClientConnectorError"
  /\ call.pc = "parse"
  /\ call.error = ErrRetries

\* C17: a response whose status is neither 200 nor 429 is the last attempt
\* of the call, at whichever attempt it comes: fetch_with_backoff returns
\* no response and the error naming that status, and has not slept for it.
C17_NonTransientAbort ==
  \A i \in 1..Len(call.seen) :
    ( call.seen[i].kind = "status" /\ call.seen[i].status \notin {200, 429} )
    => /\ i = Len(call.seen)
       /\ call.pc \notin {"start", "post"}
       /\ call.result = NoBody
       /\ call.error = << "Error:", " AI service returned status ",
                          ToString(call.seen[i].status) >>
       /\ Len(call.slept) = i - 1

C17_Witness ==
  /\ Len(call.seen) = 2
  /\ Transient(call.seen[1])
  /\ call.seen[2].kind = "status" /\ call.seen[2].status = 403
  /\ call.pc = "parse"
  /\ call.slept = << 1 >>

\* C18: whenever generate_announcement_content or a persona generator ends
\* in an error (the credential is missing, fetch_with_backoff returned an
\* error, or the reply does not have the expected shape), it returns a text
\* that starts with "Error:".
C18_ErrorPrefix ==
  ( /\ call.fn \in TextGenerators
    /\ call.pc \in {"done", "raised"}
    /\ \/ ~GEMINI_API_KEY
       \/ call.error # << >>
       \/ call.result.shape \in {"empty_candidates", "null_candidates", "array"} )
  => /\ call.pc = "done"
     /\ startswith(call.out, << "Error:" >>)

\* C19: when the reply to /automatic parses, parse_automatic_prompt returns
\* no error and the interval 10 if the reply has no interval or one below
\* 10, and the reply's own interval if it is 10 or more; the schedule that
\* /automatic then creates is automatic and stored with that interval.
C19_ParseClamps ==
  [][ \A c \in AutomaticChannels, r \in Replies, k \in ClockReads(now) :
        ( automatic_schedule(c, r, k) /\ r.kind = "ok" )
        => LET parsed == parse_automatic_prompt(GEMINI_API_KEY, r)
               clamped == IF ~r.interval.has \/ r.interval.val < 10 THEN 10
                          ELSE r.interval.val
           IN /\ parsed.error = ""
              /\ parsed.data.interval_seconds = clamped
              /\ r.prompt # ""
                 => /\ lastEvent'.res = "scheduled"
                    /\ CHANNEL_STATES'[c] # NoState
                    /\ CHANNEL_STATES'[c].is_automatic
                    /\ CHANNEL_STATES'[c].interval_seconds = clamped ]_vars

C19_Witness ==
  /\ lastEvent.op = "automatic" /\ lastEvent.res = "scheduled"
  /\ CHANNEL_STATES[lastEvent.ch] # NoState
  /\ CHANNEL_STATES[lastEvent.ch].is_automatic
  /\ CHANNEL_STATES[lastEvent.ch].interval_seconds = 10

\* C20: when the fetch of get_hangman_word succeeds, get_hangman_word
\* returns a word and no error, and does not raise: the reply's word in
\* lower case when that word is a string of 6 to 12 letters, and in every
\* other case the one fallback word "default"; and the word of every game
\* created is made of 6 to 12 lower-case letters.
C20_FallbackWord ==
  LET lowers == { Lowercase[i] : i \in 1..26 }
      d == json_loads(call.result.text)
      valid == /\ call.result.shape = "text"
               /\ d.type = "dict" /\ d.word.t = "string"
               /\ Len(d.word.s) \in 6..12
               /\ \A i \in 1..Len(d.word.s) : d.word.s[i] \in Letters
  IN
  /\ ( /\ call.fn = "get_hangman_word"
       /\ call.pc \in {"done", "raised", "game", "no_game"}
       /\ call.result # NoBody )
     => /\ call.pc # "raised"
        /\ call.out = << >>
        /\ valid => call.word = lower(d.word.s)
        /\ ~valid => call.word = << "d", "e", "f", "a", "u", "l", "t" >>
  /\ call.pc = "game"
     => /\ Len(call.game) \in 6..12
        /\ \A i \in 1..Len(call.game) : call.game[i] \in lowers

\* the step in which the suspended command i calls game.make_guess
MadeGuess(i) ==
  /\ tasks[i].kind = "guess" /\ tasks[i].pc = "defer"
  /\ tasks'[i].kind = "guess" /\ tasks'[i].pc = "edit"

\* C21: make_guess on a game that is won or lost changes nothing of the
\* game (guesses, tries_left, game_over, win); and when a guess command on
\* a finished game returns, the channel has no game any more.
C21_TerminalAcceptsNothing ==
  [][ /\ \A i \in 1..MaxTasks :
           ( MadeGuess(i) /\ games[tasks[i].game].game_over )
           => games'[tasks[i].game] = games[tasks[i].game]
      /\ \A i \in 1..MaxTasks, o \in {"edited", "NotFound", "error"} :
           ( hangman_update(i, o) /\ games[tasks[i].game].game_over )
           => HANGMAN_GAMES'[tasks[i].ch] = 0 ]_vars

C21_Witness ==
  \E i \in 1..MaxTasks :
    /\ tasks[i].kind = "guess" /\ tasks[i].pc = "edit"
    /\ games[tasks[i].game].game_over
    /\ Len(tasks[i].guess) = 1
    /\ lower(tasks[i].guess) \notin games[tasks[i].game].guesses
    /\ HANGMAN_GAMES[tasks[i].ch] = tasks[i].game

\* C22: in a game in progress, a guess (a letter or a word, in lower
\* case) that was already made earlier in the game changes nothing:
\* tries_left, guesses, game_over and win stay as they were.
C22_RepeatCostsNothing ==
  [][ \A i \in 1..MaxTasks :
        ( /\ MadeGuess(i)
          /\ ~games[tasks[i].game].game_over
          /\ lower(tasks[i].guess) \in games[tasks[i].game].submitted )
        => /\ games'[tasks[i].game].tries_left = games[tasks[i].game].tries_left
           /\ games'[tasks[i].game].guesses = games[tasks[i].game].guesses
           /\ games'[tasks[i].game].game_over = games[tasks[i].game].game_over
           /\ games'[tasks[i].game].win = games[tasks[i].game].win ]_vars

\* C23: a guess of one letter that was already guessed in the game, in
\* either case, hit or miss, leaves tries_left as it was, whatever the
\* state of the game.
C23_RepeatedLetterIsFree ==
  [][ \A i \in 1..MaxTasks :
        ( /\ MadeGuess(i)
          /\ Len(tasks[i].guess) = 1
          /\ \/ lower(tasks[i].guess) \in games[tasks[i].game].guesses
             \/ lower(tasks[i].guess) \in games[tasks[i].game].submitted )
        => games'[tasks[i].game].tries_left = games[tasks[i].game].tries_left ]_vars

C23_Witness ==
  \E i, j \in 1..MaxTasks :
    /\ i # j
    /\ tasks[i].kind = "guess" /\ tasks[i].pc = "edit"
    /\ tasks[j].kind = "guess" /\ tasks[j].pc = "edit"
    /\ tasks[i].game = tasks[j].game
    /\ tasks[i].guess = << "a" >> /\ tasks[j].guess = << "A" >>
    /\ ~games[tasks[i].game].game_over
    /\ games[tasks[i].game].guesses = { << "a" >> }
    /\ games[tasks[i].game].tries_left = 6

\* C24: in a game in progress, a wrong word and a letter that is not in
\* the word and was not guessed before each take exactly one from
\* tries_left; a letter of the word and the word itself take nothing, and
\* the word itself wins the game with every letter of it in guesses.
C24_GuessCost ==
  [][ \A i \in 1..MaxTasks :
        LET before == games[tasks[i].game]
            after == games'[tasks[i].game]
            guess == lower(tasks[i].guess)
            hit == \E k \in 1..Len(before.word) : << before.word[k] >> = guess
        IN ( MadeGuess(i) /\ ~before.game_over )
           => /\ ( Len(guess) > 1 /\ guess # before.word )
                 => after.tries_left = before.tries_left - 1
              /\ ( Len(guess) = 1 /\ ~hit /\ guess \notin before.guesses )
                 => after.tries_left = before.tries_left - 1
              /\ ( Len(guess) = 1 /\ hit )
                 => after.tries_left = before.tries_left
              /\ guess = before.word
                 => /\ after.tries_left = before.tries_left
                    /\ after.game_over /\ after.win
                    /\ \A k \in 1..Len(before.word) :
                         << before.word[k] >> \in after.guesses ]_vars

\* the word was guessed in mixed case after one wrong word and one wrong
\* letter
C24_Witness ==
  \E i \in 1..MaxTasks :
    /\ tasks[i].kind = "guess" /\ tasks[i].pc = "edit"
    /\ tasks[i].guess = << "B", "a", "n", "a", "n", "a" >>
    /\ games[tasks[i].game].win
    /\ games[tasks[i].game].tries_left = 4
    /\ games[tasks[i].game].submitted =
         { << "q" >>, << "b", "a", "n", "d", "i", "t" >>,
           << "b", "a", "n", "a", "n", "a" >> }
    /\ games[tasks[i].game].guesses = { << "q" >>, << "a" >>, << "b" >>, << "n" >> }

\* the HangmanGame objects that exist
Live == { g \in 1..MaxGames : games[g] # NoGame /\ games[g] # Collected }

\* C25: a game in which every letter of the word is in guesses is won,
\* whatever tries_left is; no game whose word is complete is lost.
C25_WinBeforeLoss ==
  \A g \in Live :
    ( \A k \in 1..Len(games[g].word) : << games[g].word[k] >> \in games[g].guesses )
    => games[g].game_over /\ games[g].win

\* the last letter of the word was guessed with one try left
C25_Witness ==
  \E i \in 1..MaxTasks :
    /\ tasks[i].kind = "guess" /\ tasks[i].pc = "edit"
    /\ Len(tasks[i].guess) = 1
    /\ games[tasks[i].game].tries_left = 1
    /\ { << "a" >>, << "b" >>, << "n" >> } \subseteq games[tasks[i].game].guesses
    /\ << "b", "a", "n", "a", "n", "a" >> \notin games[tasks[i].game].submitted
    /\ games[tasks[i].game].win

\* C26: a channel has at most one game: a /hangman without a guess in a
\* channel that has a game changes nothing, and the game of a channel is
\* never replaced by the game of another start, also not by a start that
\* was issued while an earlier start was awaiting its word or its render.
C26_OneGamePerChannel ==
  [][ \A c \in GameChannels :
        /\ ( hangman_new(c) /\ HANGMAN_GAMES[c] # 0 )
           => UNCHANGED << HANGMAN_GAMES, games, tasks >>
        /\ ( HANGMAN_GAMES[c] # 0 /\ HANGMAN_GAMES'[c] # 0 )
           => HANGMAN_GAMES'[c] = HANGMAN_GAMES[c] ]_vars

\* C27: the tries_left of a game is 6 when the game is made, never grows,
\* and stays within 0..6; a game is lost exactly when its tries_left is 0,
\* so a game that is won has at least one try left.
C27_TriesLeft ==
  [][ \A g \in 1..MaxGames :
        LET before == games[g]
            after == games'[g]
        IN /\ ( before = NoGame /\ after # NoGame ) => after.tries_left = 6
           /\ ( before \notin {NoGame, Collected} /\ after # Collected )
              => after.tries_left <= before.tries_left
           /\ after \notin {NoGame, Collected}
              => /\ after.tries_left \in 0..6
                 /\ ( after.game_over /\ ~after.win ) <=> after.tries_left = 0
                 /\ after.win => ( after.game_over /\ after.tries_left >= 1 ) ]_vars

\* six wrong letters, and nothing else, lost the game
C27_Witness ==
  \E g \in 1..MaxGames :
    /\ games[g] \notin {NoGame, Collected}
    /\ games[g].submitted = { << WrongLetters[k] >> : k \in 1..6 }
    /\ games[g].guesses = games[g].submitted
    /\ games[g].tries_left = 0
    /\ games[g].game_over /\ ~games[g].win

\* C28: the tick loop sends to no channel whose schedule was stopped and not
\* created anew: whenever a step of the loop issues channel.send for a
\* channel, also after a generation or a send in which the loop was
\* suspended, the channel has a schedule in CHANNEL_STATES.
C28_NoSendAfterStop ==
  [][ ( lastEvent'.op \in {"tick", "gen_done", "send_done"} /\ pc' = "send" )
      => CHANNEL_STATES[snapshot'[idx']] # NoState ]_vars

====
